---- MODULE Spec2Model ----
(***************************************************************************)
(* Model of the Telegram relay bot: the SQLite project repository          *)
(* (src/storage.py) and the update handlers that call it (src/main.py).    *)
(*                                                                         *)
(* Conventions                                                             *)
(*  - Optional[T] is a set with at most one element: None is {}, a value v *)
(*    is {v}.  Python truthiness of an Optional[int] is Truthy below.      *)
(*  - The projects table is a sequence of rows in rowid (insertion) order: *)
(*    rows are never deleted, so SQLite's table scan visits them in that   *)
(*    order.                                                               *)
(*  - Spec     : updates are handled one at a time (the bot's event loop). *)
(*  - SpecConc : callers of the repository whose SQL transactions          *)
(*               interleave (every repository method opens its own         *)
(*               connections on the shared database file).                 *)
(***************************************************************************)
EXTENDS Naturals, Integers, Sequences, FiniteSets, TLC

VARIABLES
    store,      \* the projects table, rows in rowid order
    ev,         \* the update handled last (the handler's inputs)
    raised,     \* the exception the repository call of that handler raised
    replies,    \* reply_text notices sent to the origin chat by that handler
    calls,      \* context.bot.send_* calls made by that handler
    pc,         \* Spec: "idle", "received", "handled";
                \* SpecConc: "setup", "run", "done"
    base,       \* SpecConc: the table when the concurrent calls started
    procs,      \* SpecConc: the concurrent repository calls
    nsetup,     \* SpecConc: number of setup calls made
    lastWrite   \* SpecConc: the caller whose UPDATE/INSERT committed last

vars == <<store, ev, raised, replies, calls, pc, base, procs, nsetup, lastWrite>>

(***************************************************************************)
(* Bounds and domains                                                      *)
(***************************************************************************)
MaxEndpoint == 2
MaxSetup == 2

ASKEDITME_TELEGRAM_ID == 205386594

\* chat ids (Python int); 0 is included because the handlers test truthiness
Endpoints == 0..MaxEndpoint
Slugs == {"a", "b"}
None == {}

admin_user_id == ASKEDITME_TELEGRAM_ID
\* update.effective_user: absent, the administrator, somebody else
Users == {None, {admin_user_id}, {admin_user_id + 1}}
\* context.args: no argument, or a slug
Args == {<<>>} \cup {<<s>> : s \in Slugs}

Truthy(opt) == opt # None /\ opt # {0}
TheValue(opt) == CHOOSE v \in opt : TRUE

(***************************************************************************)
(* storage.py                                                              *)
(***************************************************************************)
Project(slug, customer, executor, active) ==
    [slug |-> slug, customer_chat_id |-> customer,
     executor_chat_id |-> executor, is_active |-> active]

Indexes(st) == 1..Len(st)

SlugsOf(st) == {st[i].slug : i \in Indexes(st)}

\* SELECT ... WHERE slug = ? ; fetchone
find_by_slug(st, slug) ==
    {st[i] : i \in {j \in Indexes(st) : st[j].slug = slug}}

NoException == "none"
AlreadyExists == "ValueError: Project already exists"
NotFound == "ValueError: Project not found"
IntegrityError == "sqlite3.IntegrityError: UNIQUE constraint failed: projects.slug"

Outcome(st, exc, ret) == [store |-> st, raised |-> exc, ret |-> ret]


\* INSERT INTO projects ... VALUES (?, NULL, ?, 1); slug is the PRIMARY KEY
InsertRow(st, slug, executor_chat_id) ==
    IF slug \in SlugsOf(st)
    THEN Outcome(st, IntegrityError, None)
    ELSE Outcome(Append(st, Project(slug, None, {executor_chat_id}, TRUE)),
                 NoException,
                 {Project(slug, None, {executor_chat_id}, TRUE)})

\* create_project after its SELECT returned `seen`
create_project_write(st, seen, slug, executor_chat_id) ==
    IF seen # None
    THEN Outcome(st, AlreadyExists, None)
    ELSE InsertRow(st, slug, executor_chat_id)

\* mutant: the creator's chat is stored in the customer column
create_project_as_customer(st, slug, executor_chat_id) ==
    IF find_by_slug(st, slug) # None
    THEN Outcome(st, AlreadyExists, None)
    ELSE Outcome(Append(st, Project(slug, {executor_chat_id}, None, TRUE)),
                 NoException,
                 {Project(slug, {executor_chat_id}, None, TRUE)})

\* mutant: INSERT OR REPLACE without the existence test
create_project_or_replace(st, slug, executor_chat_id) ==
    Outcome(SelectSeq(st, LAMBDA r : r.slug # slug)
              \o <<Project(slug, None, {executor_chat_id}, TRUE)>>,
            NoException,
            {Project(slug, None, {executor_chat_id}, TRUE)})

\* mutant: creating over a project whose executor was unlinked sets it again
create_project_rebind_executor(st, slug, executor_chat_id) ==
    IF \E i \in Indexes(st) : st[i].slug = slug /\ st[i].executor_chat_id = None
    THEN Outcome([i \in Indexes(st) |->
                    IF st[i].slug = slug
                    THEN [st[i] EXCEPT !.executor_chat_id = {executor_chat_id}]
                    ELSE st[i]],
                 NoException, None)
    ELSE create_project_write(st, find_by_slug(st, slug), slug, executor_chat_id)

create_project(st, slug, executor_chat_id) ==
    create_project_write(st, find_by_slug(st, slug), slug, executor_chat_id)

\* UPDATE projects SET customer_chat_id = ?, is_active = 1 WHERE slug = ?
UpdateBind(st, slug, chat_id) ==
    [i \in Indexes(st) |->
        IF st[i].slug = slug
        THEN [st[i] EXCEPT !.customer_chat_id = {chat_id}, !.is_active = TRUE]
        ELSE st[i]]

\* mutant: optimistic locking, the UPDATE applies only while the customer
\* column still holds the value that was read
bind_customer_write_cas(st, project, slug, chat_id) ==
    IF project = None
    THEN Outcome(st, NotFound, None)
    ELSE Outcome([i \in Indexes(st) |->
                    IF st[i].slug = slug
                       /\ st[i].customer_chat_id = TheValue(project).customer_chat_id
                    THEN [st[i] EXCEPT !.customer_chat_id = {chat_id},
                                       !.is_active = TRUE]
                    ELSE st[i]],
                 NoException,
                 {[p EXCEPT !.customer_chat_id = {chat_id}, !.is_active = TRUE]
                    : p \in project})

\* bind_customer_chat after its find_by_slug returned `project`
bind_customer_write(st, project, slug, chat_id) ==
    IF project = None
    THEN Outcome(st, NotFound, None)
    ELSE Outcome(UpdateBind(st, slug, chat_id),
                 NoException,
                 {[p EXCEPT !.customer_chat_id = {chat_id}, !.is_active = TRUE]
                    : p \in project})

\* mutant: the UPDATE sets customer_chat_id only
bind_customer_chat_no_reactivate(st, slug, chat_id) ==
    IF find_by_slug(st, slug) = None
    THEN Outcome(st, NotFound, None)
    ELSE Outcome([i \in Indexes(st) |->
                    IF st[i].slug = slug
                    THEN [st[i] EXCEPT !.customer_chat_id = {chat_id}]
                    ELSE st[i]],
                 NoException,
                 {[p EXCEPT !.customer_chat_id = {chat_id}]
                    : p \in find_by_slug(st, slug)})

\* mutant: a project whose customer side is bound refuses another bind
bind_customer_chat_once(st, slug, chat_id) ==
    IF \E p \in find_by_slug(st, slug) : p.customer_chat_id # None
    THEN Outcome(st, "ValueError: Customer already bound", None)
    ELSE bind_customer_write(st, find_by_slug(st, slug), slug, chat_id)

bind_customer_chat(st, slug, chat_id) ==
    bind_customer_write(st, find_by_slug(st, slug), slug, chat_id)

\* UPDATE projects SET customer_chat_id = ?, executor_chat_id = ?,
\*   is_active = 0 WHERE slug = ?
UpdateUnlink(st, slug, new_customer, new_executor) ==
    [i \in Indexes(st) |->
        IF st[i].slug = slug
        THEN [st[i] EXCEPT !.customer_chat_id = new_customer,
                           !.executor_chat_id = new_executor,
                           !.is_active = FALSE]
        ELSE st[i]]

Unlinked(p, chat_id) ==
    Project(p.slug,
            IF {chat_id} = p.customer_chat_id THEN None ELSE p.customer_chat_id,
            IF {chat_id} = p.executor_chat_id THEN None ELSE p.executor_chat_id,
            FALSE)

\* unlink_chat after its find_by_slug returned `project`: the UPDATE writes
\* the two columns computed from the row that was read
unlink_chat_write(st, project, slug, chat_id) ==
    IF project = None
    THEN Outcome(st, NotFound, None)
    ELSE LET p == TheValue(project)
             q == Unlinked(p, chat_id)
         IN Outcome(UpdateUnlink(st, slug, q.customer_chat_id, q.executor_chat_id),
                    NoException, {q})

\* mutant: the project is deactivated only when a side was cleared
unlink_chat_if_matched(st, slug, chat_id) ==
    IF find_by_slug(st, slug) = None
    THEN Outcome(st, NotFound, None)
    ELSE LET p == TheValue(find_by_slug(st, slug))
         IN IF {chat_id} # p.customer_chat_id /\ {chat_id} # p.executor_chat_id
            THEN Outcome(st, NoException, {p})
            ELSE unlink_chat_write(st, {p}, slug, chat_id)

\* mutant: a project left with neither side bound is deleted
unlink_chat_deletes(st, slug, chat_id) ==
    LET out == unlink_chat_write(st, find_by_slug(st, slug), slug, chat_id)
    IN Outcome(SelectSeq(out.store,
                         LAMBDA r : r.customer_chat_id # None
                                    \/ r.executor_chat_id # None),
               out.raised, out.ret)

unlink_chat(st, slug, chat_id) ==
    unlink_chat_write(st, find_by_slug(st, slug), slug, chat_id)

\* SELECT ... WHERE customer_chat_id = ? OR executor_chat_id = ? ; fetchone
Matching(st, chat_id) ==
    {i \in Indexes(st) : st[i].customer_chat_id = {chat_id}
                         \/ st[i].executor_chat_id = {chat_id}}

FirstOf(S) == CHOOSE i \in S : \A j \in S : i <= j

find_by_chat_id(st, chat_id) ==
    IF Matching(st, chat_id) = {}
    THEN None
    ELSE LET project == st[FirstOf(Matching(st, chat_id))]
         IN {[project |-> project,
              role |-> IF project.customer_chat_id = {chat_id}
                       THEN "customer" ELSE "executor"]}

(***************************************************************************)
(* main.py: administrative command handlers                                *)
(***************************************************************************)
\* mutant: any identified user passes
is_admin_any_user(user) == user # None

is_admin(user) == user # None /\ TheValue(user) = admin_user_id

\* what a handler did: the table afterwards, the exception the repository
\* raised, the notices replied to the origin chat, the transport calls
Handled(st, exc, rs, cs) ==
    [store |-> st, raised |-> exc, replies |-> rs, calls |-> cs]

AdminOnly == "Admin only"
Usage(cmd) == <<"Usage", cmd>>

create_project_handler(st, user, args, chat_id) ==
    IF ~is_admin(user)
    THEN Handled(st, NoException, <<AdminOnly>>, <<>>)
    ELSE IF args = <<>>
    THEN Handled(st, NoException, <<Usage("create_project")>>, <<>>)
    ELSE LET out == create_project(st, args[1], chat_id)
         IN IF out.raised # NoException
            THEN Handled(out.store, out.raised, <<out.raised>>, <<>>)
            ELSE Handled(out.store, NoException, <<<<"Created", args[1]>>>>, <<>>)

bind_customer_handler(st, user, args, chat_id) ==
    IF ~is_admin(user)
    THEN Handled(st, NoException, <<AdminOnly>>, <<>>)
    ELSE IF args = <<>>
    THEN Handled(st, NoException, <<Usage("bind_customer")>>, <<>>)
    ELSE LET out == bind_customer_chat(st, args[1], chat_id)
         IN IF out.raised # NoException
            THEN Handled(out.store, out.raised, <<out.raised>>, <<>>)
            ELSE Handled(out.store, NoException,
                         <<<<"Bound", TheValue(out.ret).slug>>>>, <<>>)

unlink_project_handler(st, user, args, chat_id) ==
    IF ~is_admin(user)
    THEN Handled(st, NoException, <<AdminOnly>>, <<>>)
    ELSE IF args = <<>>
    THEN Handled(st, NoException, <<Usage("unlink_project")>>, <<>>)
    ELSE LET out == unlink_chat(st, args[1], chat_id)
         IN IF out.raised # NoException
            THEN Handled(out.store, out.raised, <<out.raised>>, <<>>)
            ELSE Handled(out.store, NoException,
                         <<<<"Unlinked", TheValue(out.ret).slug>>>>, <<>>)

project_info_handler(st, chat_id) ==
    LET found == find_by_chat_id(st, chat_id)
    IN IF found = None
       THEN Handled(st, NoException, <<"Chat not bound">>, <<>>)
       ELSE LET f == TheValue(found)
            IN Handled(st, NoException,
                       <<<<"Info", f.project.slug, f.role, f.project.is_active>>>>,
                       <<>>)

(***************************************************************************)
(* main.py: relay_message                                                  *)
(***************************************************************************)
ExecutorLabel == "Message from the team"
CustomerLabel == "Message from the client"

caption_for_role(role) ==
    IF role = "executor" THEN <<ExecutorLabel, ".">> ELSE <<CustomerLabel, ".">>

\* f"{base}\n{original_caption}" when there is a caption
build_media_caption(role, original_caption) ==
    IF original_caption # None /\ TheValue(original_caption) # ""
    THEN caption_for_role(role) \o <<"\n", TheValue(original_caption)>>
    ELSE caption_for_role(role)

prefix_for_role(role) ==
    IF role = "executor" THEN <<ExecutorLabel, ": ">> ELSE <<CustomerLabel, ": ">>

\* the message kinds relay_message tells apart, in the order it tests them
MediaKinds == {"document", "photo", "voice", "audio", "video"}
Captions == {None, {"cap"}}
TheText == "hello"
FileId(kind) == <<"file_id", kind>>

SendMethod(kind) ==
    CASE kind = "document" -> "send_document"
      [] kind = "photo" -> "send_photo"
      [] kind = "voice" -> "send_voice"
      [] kind = "audio" -> "send_audio"
      [] kind = "video" -> "send_video"

NoPairing == "No paired chat"
Unsupported == "Unsupported message type"
DeliveryFailed == "Could not deliver"

\* a message: has_message is update.effective_message being present
Message(has_message, chat_id, is_bot, content, caption) ==
    [has_message |-> has_message, chat_id |-> chat_id, is_bot |-> is_bot,
     content |-> content, caption |-> caption]

SendCall(method, target, body, caption) ==
    [method |-> method, target |-> target, body |-> body, caption |-> caption]

\* relay_message from line 173 on: `found` is the (project, role) looked up;
\* fail: the transport call raises TelegramError
relay_found(st, message, fail, found) ==
    LET project == found.project
        role == found.role
        target_chat_id == IF role = "executor"
                          THEN project.customer_chat_id
                          ELSE project.executor_chat_id
    IN IF ~Truthy(target_chat_id)
    THEN Handled(st, NoException, <<NoPairing>>, <<>>)
    ELSE LET caption == caption_for_role(role)   \* line 180 replaces line 179's value
             text_prefix == prefix_for_role(role)
             target == TheValue(target_chat_id)
             call == IF message.content = "text"
                     THEN SendCall("send_message", target,
                                   text_prefix \o <<TheText>>, None)
                     ELSE SendCall(SendMethod(message.content), target,
                                   FileId(message.content), {caption})
    IN IF message.content = "other"
       THEN Handled(st, NoException, <<Unsupported>>, <<>>)
       ELSE IF fail
       THEN Handled(st, NoException, <<DeliveryFailed>>, <<call>>)
       ELSE Handled(st, NoException, <<>>, <<call>>)

\* mutant: an unknown origin chat is told so, as project_info does
relay_message_notify_unknown(st, message, fail) ==
    IF ~message.has_message \/ message.is_bot
    THEN Handled(st, NoException, <<>>, <<>>)
    ELSE IF find_by_chat_id(st, message.chat_id) = None
    THEN Handled(st, NoException, <<"Chat not bound">>, <<>>)
    ELSE relay_found(st, message, fail, TheValue(find_by_chat_id(st, message.chat_id)))

\* mutant: the sender's is_bot flag is not tested
relay_message_relays_bots(st, message, fail) ==
    IF ~message.has_message \/ find_by_chat_id(st, message.chat_id) = None
    THEN Handled(st, NoException, <<>>, <<>>)
    ELSE relay_found(st, message, fail, TheValue(find_by_chat_id(st, message.chat_id)))

relay_message(st, message, fail) ==
    IF ~message.has_message
    THEN Handled(st, NoException, <<>>, <<>>)
    ELSE IF message.is_bot
    THEN Handled(st, NoException, <<>>, <<>>)
    ELSE LET found == find_by_chat_id(st, message.chat_id)
    IN IF found = None
    THEN Handled(st, NoException, <<>>, <<>>)
    ELSE relay_found(st, message, fail, TheValue(found))

(***************************************************************************)
(* main.py: list_projects_handler, help_handler                            *)
(***************************************************************************)
\* position of a slug in SQLite's text ordering (ORDER BY slug)
SlugRank(slug) == IF slug = "a" THEN 1 ELSE 2

RECURSIVE SortedBySlug(_)
SortedBySlug(rows) ==
    IF rows = {} THEN <<>>
    ELSE LET least == CHOOSE r \in rows :
                        \A q \in rows : SlugRank(r.slug) <= SlugRank(q.slug)
         IN <<least>> \o SortedBySlug(rows \ {least})

\* mutant: the SELECT has no ORDER BY, rows come in rowid order
list_projects_rowid(st) == st

list_projects(st) == SortedBySlug({st[i] : i \in Indexes(st)})

build_project_status(project) ==
    <<project.slug,
      IF Truthy(project.customer_chat_id) THEN project.customer_chat_id ELSE None,
      IF Truthy(project.executor_chat_id) THEN project.executor_chat_id ELSE None,
      project.is_active>>

list_projects_handler(st, user) ==
    IF ~is_admin(user)
    THEN Handled(st, NoException, <<AdminOnly>>, <<>>)
    ELSE LET projects == list_projects(st)
         IN IF projects = <<>>
            THEN Handled(st, NoException, <<"No projects yet">>, <<>>)
            ELSE Handled(st, NoException,
                         <<<<"Projects">> \o
                           [i \in 1..Len(projects) |-> build_project_status(projects[i])]>>,
                         <<>>)

help_handler(st) == Handled(st, NoException, <<"Help">>, <<>>)

(***************************************************************************)
(* Spec: the bot handles one update at a time                              *)
(***************************************************************************)
Event(kind, user, args, message, fail) ==
    [kind |-> kind, user |-> user, args |-> args, message |-> message, fail |-> fail]

CommandMessage(chat_id) == Message(TRUE, chat_id, FALSE, "text", None)

NoProcs == <<>>
NoEvent == Event("none", None, <<>>, CommandMessage(0), FALSE)

\* the non-command updates the MessageHandler passes to relay_message
Messages ==
    {Message(TRUE, c, b, "text", None) : c \in Endpoints, b \in BOOLEAN}
    \cup {Message(TRUE, c, b, "other", None) : c \in Endpoints, b \in BOOLEAN}
    \cup {Message(TRUE, c[1], c[2], c[3], c[4]) :
            c \in Endpoints \X BOOLEAN \X MediaKinds \X Captions}
    \cup {Message(FALSE, 0, FALSE, "other", None)}

AdminCommands == {"create_project", "bind_customer", "unlink_project"}

\* the updates the application dispatches (build_application)
Events ==
    {Event(c[1], c[2], c[3], CommandMessage(c[4]), FALSE) :
        c \in AdminCommands \X Users \X Args \X Endpoints}
    \cup {Event("project_info", None, <<>>, CommandMessage(c), FALSE) : c \in Endpoints}
    \cup {Event("list_projects", u, <<>>, CommandMessage(0), FALSE) : u \in Users}
    \cup {Event("help", None, <<>>, CommandMessage(0), FALSE)}
    \cup {Event("relay", None, <<>>, c[1], c[2]) : c \in Messages \X BOOLEAN}

Init ==
    /\ store = <<>>
    /\ pc = "idle"
    /\ ev = NoEvent
    /\ raised = NoException
    /\ replies = <<>>
    /\ calls = <<>>
    /\ base = <<>>
    /\ procs = NoProcs
    /\ nsetup = 0
    /\ lastWrite = 0

ConcUnchanged == UNCHANGED <<base, procs, nsetup, lastWrite>>

\* the application takes the next update off the polling queue
Receive ==
    /\ pc = "idle"
    /\ \E event \in Events : ev' = event
    /\ pc' = "received"
    /\ UNCHANGED <<store, raised, replies, calls>>
    /\ ConcUnchanged

\* the handler registered for the update runs to completion
Dispatch(kind, h) ==
    /\ pc = "received"
    /\ ev.kind = kind
    /\ pc' = "handled"
    /\ store' = h.store
    /\ raised' = h.raised
    /\ replies' = h.replies
    /\ calls' = h.calls
    /\ UNCHANGED ev
    /\ ConcUnchanged

HandleCreateProject ==
    Dispatch("create_project",
             create_project_handler(store, ev.user, ev.args, ev.message.chat_id))

HandleBindCustomer ==
    Dispatch("bind_customer",
             bind_customer_handler(store, ev.user, ev.args, ev.message.chat_id))

HandleUnlinkProject ==
    Dispatch("unlink_project",
             unlink_project_handler(store, ev.user, ev.args, ev.message.chat_id))

HandleProjectInfo ==
    Dispatch("project_info", project_info_handler(store, ev.message.chat_id))

HandleListProjects ==
    Dispatch("list_projects", list_projects_handler(store, ev.user))

HandleHelp ==
    Dispatch("help", help_handler(store))

HandleRelay ==
    Dispatch("relay", relay_message(store, ev.message, ev.fail))

\* the handler has returned; the application waits for the next update
Return ==
    /\ pc = "handled"
    /\ pc' = "idle"
    /\ ev' = NoEvent
    /\ raised' = NoException
    /\ replies' = <<>>
    /\ calls' = <<>>
    /\ UNCHANGED store
    /\ ConcUnchanged

Next ==
    \/ Receive
    \/ HandleCreateProject
    \/ HandleBindCustomer
    \/ HandleUnlinkProject
    \/ HandleProjectInfo
    \/ HandleListProjects
    \/ HandleHelp
    \/ HandleRelay
    \/ Return

Spec == Init /\ [][Next]_vars

(***************************************************************************)
(* Properties                                                              *)
(***************************************************************************)
\* the step in which the handler of a `kind` update runs
Handling(kind) == pc = "received" /\ ev.kind = kind /\ pc' = "handled"
\* a state right after the handler of a `kind` update ran
HandledKind(kind) == pc = "handled" /\ ev.kind = kind
\* the administrator issued the command with a slug: the repository is called
CallsRepository == is_admin(ev.user) /\ ev.args # <<>>
\* a message relay_message does not drop at its first two tests
RealMessage == ev.message.has_message /\ ~ev.message.is_bot

OthersUnchanged(slug) ==
    \A t \in Slugs \ {slug} : find_by_slug(store', t) = find_by_slug(store, t)

\* C1: createProject(s, e) on a slug not in the store succeeds; afterwards
\* findBySlug(s) is the project with executorEndpoint = e, no customerEndpoint
\* and active = true, and every other record is unchanged.
C1_CreateNewSlug ==
    [][(Handling("create_project") /\ CallsRepository
          /\ \A i \in Indexes(store) : store[i].slug # ev.args[1])
       => /\ raised' = NoException
          /\ find_by_slug(store', ev.args[1])
               = {Project(ev.args[1], None, {ev.message.chat_id}, TRUE)}
          /\ Len(store') = Len(store) + 1
          /\ \A i \in Indexes(store) : store'[i] = store[i]
          /\ OthersUnchanged(ev.args[1])]_vars

C1_Witness ==
    /\ HandledKind("create_project") /\ CallsRepository
    /\ raised = NoException
    /\ Len(store) = 2
    /\ store[2].slug = ev.args[1]
    /\ store[1].customer_chat_id # None

\* C2: createProject on a slug that already exists, in whatever state that
\* project is, fails with DuplicateSlug and leaves the whole store as it was.
C2_DuplicateSlugRejected ==
    [][(Handling("create_project") /\ CallsRepository
          /\ \E i \in Indexes(store) : store[i].slug = ev.args[1])
       => /\ raised' = AlreadyExists
          /\ store' = store]_vars

C2_Witness ==
    /\ HandledKind("create_project") /\ CallsRepository
    /\ raised = AlreadyExists
    /\ \E i \in Indexes(store) :
         /\ store[i].slug = ev.args[1]
         /\ ~store[i].is_active
         /\ store[i].executor_chat_id = None
         /\ store[i].customer_chat_id # {ev.message.chat_id}

\* the transport call relay_message made goes to `target` under `label`
DeliveredTo(target, label) ==
    /\ Len(calls) = 1
    /\ calls[1].target = target
    /\ IF ev.message.content = "text"
       THEN calls[1].body[1] = label
       ELSE \E cap \in calls[1].caption : cap[1] = label

\* C3: for every project with executorEndpoint x and customerEndpoint c both
\* present, findByEndpoint(x) is (that project, executor), findByEndpoint(c)
\* is (that project, customer), a message from x is routed to c with the
\* executor role and a message from c is routed to x with the customer role.
C3_BoundPairRoutes ==
    \A i \in Indexes(store) : \A x \in store[i].executor_chat_id :
      \A c \in store[i].customer_chat_id :
        /\ find_by_chat_id(store, x) = {[project |-> store[i], role |-> "executor"]}
        /\ find_by_chat_id(store, c) = {[project |-> store[i], role |-> "customer"]}
        /\ (HandledKind("relay") /\ RealMessage /\ ev.message.content # "other")
           => /\ ev.message.chat_id = x => DeliveredTo(c, ExecutorLabel)
              /\ ev.message.chat_id = c => DeliveredTo(x, CustomerLabel)

\* some project has the endpoint as its customer or executor side
IsBound(st, chat_id) ==
    \E i \in Indexes(st) : chat_id \in st[i].customer_chat_id
                           \/ chat_id \in st[i].executor_chat_id

\* C4: relaying a message whose origin is no project's customerEndpoint or
\* executorEndpoint delivers nothing, notifies nobody, raises nothing and
\* leaves the store unchanged.
C4_UnknownOriginIgnored ==
    [][(Handling("relay") /\ ~IsBound(store, ev.message.chat_id))
       => /\ calls' = <<>>
          /\ replies' = <<>>
          /\ raised' = NoException
          /\ store' = store]_vars

C4_Witness ==
    /\ HandledKind("relay") /\ RealMessage
    /\ ev.message.content = "text"
    /\ ~IsBound(store, ev.message.chat_id)
    /\ \E i \in Indexes(store) :
         store[i].customer_chat_id # None /\ store[i].executor_chat_id # None
    /\ calls = <<>> /\ replies = <<>>

\* the other side of the project matched for the origin endpoint
Counterpart(st, chat_id) ==
    LET f == TheValue(find_by_chat_id(st, chat_id))
    IN IF f.role = "executor"
       THEN f.project.customer_chat_id
       ELSE f.project.executor_chat_id

\* C5: for a message whose origin matches a project, the outcome is
\* NoPairingConfigured (a notice, no delivery attempt) exactly when the
\* counterpart endpoint is absent; a present counterpart, whatever its
\* value, gets a routing decision.
C5_NoPairingIffAbsent ==
    (HandledKind("relay") /\ RealMessage /\ IsBound(store, ev.message.chat_id))
    => ((replies = <<NoPairing>> /\ calls = <<>>)
        <=> Counterpart(store, ev.message.chat_id) = None)

\* C6: unlinkEndpoint(slug, e) on an unknown slug fails with ProjectNotFound
\* and changes nothing; on a known slug it clears exactly the sides equal to
\* e, sets active = false even when neither matched, and changes no other
\* project.
C6_UnlinkEffect ==
    [][(Handling("unlink_project") /\ CallsRepository)
       => LET slug == ev.args[1]
              e == ev.message.chat_id
          IN IF \A i \in Indexes(store) : store[i].slug # slug
             THEN raised' = NotFound /\ store' = store
             ELSE /\ raised' = NoException
                  /\ Len(store') = Len(store)
                  /\ \A i \in Indexes(store) :
                       IF store[i].slug # slug
                       THEN store'[i] = store[i]
                       ELSE /\ store'[i].slug = slug
                            /\ store'[i].is_active = FALSE
                            /\ store'[i].customer_chat_id =
                                 (store[i].customer_chat_id \ {e})
                            /\ store'[i].executor_chat_id =
                                 (store[i].executor_chat_id \ {e})]_vars

C6_Witness ==
    /\ HandledKind("unlink_project") /\ CallsRepository
    /\ raised = NoException
    /\ Len(store) = 2
    /\ \E i \in Indexes(store) :
         /\ store[i].slug = ev.args[1]
         /\ store[i].customer_chat_id # None
         /\ store[i].executor_chat_id # None
         /\ ~store[i].is_active

\* C7: bindCustomer(slug, e) on an unknown slug fails with ProjectNotFound,
\* creating nothing; on a known slug, from any prior state, it sets
\* customerEndpoint = e and active = true, leaves executorEndpoint as it was
\* and changes no other project.
C7_BindEffect ==
    [][(Handling("bind_customer") /\ CallsRepository)
       => LET slug == ev.args[1]
              e == ev.message.chat_id
          IN IF \A i \in Indexes(store) : store[i].slug # slug
             THEN raised' = NotFound /\ store' = store
             ELSE /\ raised' = NoException
                  /\ Len(store') = Len(store)
                  /\ \A i \in Indexes(store) :
                       IF store[i].slug # slug
                       THEN store'[i] = store[i]
                       ELSE store'[i] = Project(slug, {e},
                                                store[i].executor_chat_id, TRUE)]_vars

C7_Witness ==
    /\ HandledKind("bind_customer") /\ CallsRepository
    /\ raised = NoException
    /\ Len(store) = 2
    /\ \E i \in Indexes(store) :
         /\ store[i].slug = ev.args[1]
         /\ store[i].executor_chat_id = None
         /\ store[i].customer_chat_id = {ev.message.chat_id}
         /\ store[i].is_active

\* C10: in every reachable store no endpoint is the customerEndpoint of two
\* projects, the executorEndpoint of two projects, or the customerEndpoint
\* of one project and the executorEndpoint of another.
C10_EndpointsUnique ==
    \A i \in Indexes(store), j \in Indexes(store) :
        i # j =>
          /\ store[i].customer_chat_id \cap store[j].customer_chat_id = {}
          /\ store[i].executor_chat_id \cap store[j].executor_chat_id = {}
          /\ store[i].customer_chat_id \cap store[j].executor_chat_id = {}

(***************************************************************************)
(* SpecConc: two callers of the repository on the same database file.      *)
(* A method's `with self._get_conn()` blocks are separate SQLite            *)
(* transactions: bind_customer_chat and unlink_chat read the row through    *)
(* find_by_slug on one connection and write on another; create_project's    *)
(* SELECT runs in autocommit mode and the INSERT opens the transaction.     *)
(* SQLite serialises the transactions; the steps of two calls interleave.   *)
(***************************************************************************)
Callers == {1, 2}
RepoOps == {"create_project", "bind_customer_chat", "unlink_chat"}

Call(op, slug, chat_id) ==
    [op |-> op, slug |-> slug, chat_id |-> chat_id, step |-> "read",
     seen |-> None, raised |-> NoException, ret |-> None]

CallSet == {Call(c[1], c[2], c[3]) : c \in RepoOps \X Slugs \X Endpoints}

\* a repository method run without interruption
RepoCall(st, call) ==
    CASE call.op = "create_project" -> create_project(st, call.slug, call.chat_id)
      [] call.op = "bind_customer_chat" -> bind_customer_chat(st, call.slug, call.chat_id)
      [] call.op = "unlink_chat" -> unlink_chat(st, call.slug, call.chat_id)

InitConc ==
    /\ store = <<>>
    /\ pc = "setup"
    /\ ev = NoEvent
    /\ raised = NoException
    /\ replies = <<>>
    /\ calls = <<>>
    /\ base = <<>>
    /\ procs = NoProcs
    /\ nsetup = 0
    /\ lastWrite = 0

SeqUnchanged == UNCHANGED <<ev, raised, replies, calls>>

\* before the race: repository calls made one after the other
SetupCall ==
    /\ pc = "setup"
    /\ nsetup < MaxSetup
    /\ \E call \in CallSet : store' = RepoCall(store, call).store
    /\ nsetup' = nsetup + 1
    /\ UNCHANGED <<pc, base, procs, lastWrite>>
    /\ SeqUnchanged

\* the two callers enter their methods
StartCalls ==
    /\ pc = "setup"
    /\ \E c1 \in CallSet, c2 \in CallSet : procs' = <<c1, c2>>
    /\ base' = store
    /\ pc' = "run"
    /\ UNCHANGED <<store, nsetup, lastWrite>>
    /\ SeqUnchanged

\* the reading transaction of a call: SELECT ... WHERE slug = ?
ReadStep(c, op) ==
    /\ pc = "run"
    /\ procs[c].op = op
    /\ procs[c].step = "read"
    /\ procs' = [procs EXCEPT ![c].seen = find_by_slug(store, procs[c].slug),
                              ![c].step = "write"]
    /\ UNCHANGED <<store, pc, base, nsetup, lastWrite>>
    /\ SeqUnchanged

\* the rest of a call: the test of what was read, the writing transaction
WriteStep(c, op, out) ==
    /\ pc = "run"
    /\ procs[c].op = op
    /\ procs[c].step = "write"
    /\ store' = out.store
    /\ procs' = [procs EXCEPT ![c].raised = out.raised, ![c].ret = out.ret,
                              ![c].step = "done"]
    /\ lastWrite' = IF out.raised = NoException THEN c ELSE lastWrite
    /\ UNCHANGED <<pc, base, nsetup>>
    /\ SeqUnchanged

CreateSelect(c) == ReadStep(c, "create_project")

CreateInsert(c) ==
    WriteStep(c, "create_project",
              create_project_write(store, procs[c].seen, procs[c].slug, procs[c].chat_id))

BindFind(c) == ReadStep(c, "bind_customer_chat")

BindUpdate(c) ==
    WriteStep(c, "bind_customer_chat",
              bind_customer_write(store, procs[c].seen, procs[c].slug, procs[c].chat_id))

UnlinkFind(c) == ReadStep(c, "unlink_chat")

UnlinkUpdate(c) ==
    WriteStep(c, "unlink_chat",
              unlink_chat_write(store, procs[c].seen, procs[c].slug, procs[c].chat_id))

AllDone == pc = "run" /\ \A c \in Callers : procs[c].step = "done"

\* both calls have returned
Finish ==
    /\ AllDone
    /\ pc' = "done"
    /\ UNCHANGED <<store, base, procs, nsetup, lastWrite>>
    /\ SeqUnchanged

NextConc ==
    \/ SetupCall
    \/ StartCalls
    \/ \E c \in Callers : CreateSelect(c)
    \/ \E c \in Callers : CreateInsert(c)
    \/ \E c \in Callers : BindFind(c)
    \/ \E c \in Callers : BindUpdate(c)
    \/ \E c \in Callers : UnlinkFind(c)
    \/ \E c \in Callers : UnlinkUpdate(c)
    \/ Finish

SpecConc == InitConc /\ [][NextConc]_vars

\* the outcome of running the two calls one after the other, `first` first
Serial(first, second) ==
    LET o1 == RepoCall(base, procs[first])
        o2 == RepoCall(o1.store, procs[second])
    IN /\ store = o2.store
       /\ procs[first].raised = o1.raised /\ procs[first].ret = o1.ret
       /\ procs[second].raised = o2.raised /\ procs[second].ret = o2.ret

\* C8: every interleaving of concurrently running createProject,
\* bindCustomer and unlinkEndpoint calls ends in a store, and with results,
\* that some serial order of the same calls produces.
C8_Serializable ==
    pc = "done" => (Serial(1, 2) \/ Serial(2, 1))

\* two bindCustomer calls on the same slug, which existed when they started
TwoBinds ==
    /\ pc = "done"
    /\ procs[1].op = "bind_customer_chat" /\ procs[2].op = "bind_customer_chat"
    /\ procs[1].slug = procs[2].slug
    /\ \E i \in Indexes(base) : base[i].slug = procs[1].slug

\* C9: two concurrent bindCustomer calls on one existing slug both succeed;
\* the project ends active, with its executorEndpoint as before and its
\* customerEndpoint that of the call whose write was applied last; nothing
\* else changes.
C9_LastWriteWins ==
    TwoBinds =>
      /\ procs[1].raised = NoException /\ procs[2].raised = NoException
      /\ lastWrite \in Callers
      /\ Len(store) = Len(base)
      /\ \A i \in Indexes(base) :
           IF base[i].slug # procs[1].slug
           THEN store[i] = base[i]
           ELSE store[i] = Project(base[i].slug, {procs[lastWrite].chat_id},
                                   base[i].executor_chat_id, TRUE)

C9_Witness ==
    /\ TwoBinds
    /\ procs[1].chat_id # procs[2].chat_id
    /\ lastWrite = 1
    /\ \E i \in Indexes(base) :
         /\ base[i].slug = procs[1].slug
         /\ ~base[i].is_active
         /\ base[i].customer_chat_id \notin {{procs[1].chat_id}, {procs[2].chat_id}}
    /\ \E i \in Indexes(store) :
         /\ store[i].slug = procs[1].slug
         /\ store[i].customer_chat_id = {procs[1].chat_id}

(***************************************************************************)
(* Properties of the store over time and of the lookups                    *)
(***************************************************************************)
RowsWithSlug(st, slug) == {i \in Indexes(st) : st[i].slug = slug}

\* C11: projects are never deleted and slugs are stable and unique: every
\* slug of the store is still there after any step, with exactly one row
\* that findBySlug returns and listProjects contains.
C11_SlugsPersist ==
    /\ [][\A i \in Indexes(store) : RowsWithSlug(store', store[i].slug) # {}]_vars
    /\ [](LET listed == list_projects(store)
          IN \A i \in Indexes(store) :
               /\ RowsWithSlug(store, store[i].slug) = {i}
               /\ find_by_slug(store, store[i].slug) = {store[i]}
               /\ \E k \in 1..Len(listed) : listed[k] = store[i])

C11_Witness ==
    /\ HandledKind("unlink_project") /\ CallsRepository
    /\ raised = NoException
    /\ Len(store) = 2
    /\ \E i \in Indexes(store) :
         /\ store[i].slug = ev.args[1]
         /\ store[i].customer_chat_id = None
         /\ store[i].executor_chat_id = None
         /\ ~store[i].is_active

\* C12: bindCustomer is idempotent: from every store, for every slug and
\* endpoint, a second bindCustomer(slug, e) right after the first leaves the
\* store as the first left it and returns the same project value.
\* (every reachable store is the store of an idle state)
C12_BindIdempotent ==
    pc = "idle" =>
      \A slug \in Slugs, e \in Endpoints :
        LET once == bind_customer_chat(store, slug, e)
            twice == bind_customer_chat(once.store, slug, e)
        IN /\ twice.store = once.store
           /\ twice.ret = once.ret
           /\ twice.raised = once.raised

\* the state after a bindCustomer on a project that was deactivated with its
\* executor side cleared; the formula applies the second call to it
C12_Witness ==
    /\ HandledKind("bind_customer") /\ CallsRepository
    /\ raised = NoException
    /\ Len(store) = 2
    /\ \E i \in Indexes(store) :
         /\ store[i].slug = ev.args[1]
         /\ store[i].executor_chat_id = None
    /\ bind_customer_chat(store, ev.args[1], ev.message.chat_id).store = store

\* C13: listProjects returns every project of the store exactly once, in
\* ascending slug order whatever the creation order, and the list the
\* administrator is sent is that of the store at the time of the call.
C13_ListOrdered ==
    LET listed == list_projects(store)
    IN /\ pc = "idle" =>
            /\ Len(listed) = Len(store)
            /\ \A i \in Indexes(store) :
                 Cardinality({k \in 1..Len(listed) : listed[k] = store[i]}) = 1
            /\ \A k \in 1..Len(listed), m \in 1..Len(listed) :
                 k < m => SlugRank(listed[k].slug) < SlugRank(listed[m].slug)
       /\ (HandledKind("list_projects") /\ ev.user = {admin_user_id} /\ store # <<>>)
            => /\ Len(replies) = 1
               /\ Len(replies[1]) = Len(store) + 1
               /\ \A k \in 1..Len(listed) :
                    replies[1][k + 1] = build_project_status(listed[k])

C13_Witness ==
    /\ HandledKind("list_projects") /\ ev.user = {admin_user_id}
    /\ Len(store) = 2
    /\ store[1].slug = "b" /\ store[2].slug = "a"
    /\ replies[1][2][1] = "a" /\ replies[1][3][1] = "b"

(***************************************************************************)
(* Properties of the handlers                                              *)
(***************************************************************************)
\* C14: an inbound event whose sender is a bot is discarded before any
\* lookup: no transport delivery, no notice to the origin, no exception and
\* no store change, whatever the origin endpoint is bound to.
C14_BotsDiscarded ==
    [][(Handling("relay") /\ ev.message.is_bot)
       => /\ calls' = <<>>
          /\ replies' = <<>>
          /\ raised' = NoException
          /\ store' = store]_vars

\* a bot's message from the executor chat of a project with both sides bound
C14_Witness ==
    /\ HandledKind("relay") /\ ev.message.has_message /\ ev.message.is_bot
    /\ ev.message.content = "text"
    /\ \E i \in Indexes(store) :
         /\ store[i].executor_chat_id = {ev.message.chat_id}
         /\ store[i].customer_chat_id \notin {None, {0}, {ev.message.chat_id}}
         /\ store[i].is_active
    /\ calls = <<>> /\ replies = <<>>

\* C15: a create_project, bind_customer or unlink_project command from any
\* identity other than the configured administrator leaves the store
\* unchanged; only the administrator's commands change the store.
C15_AdminOnly ==
    [][/\ (pc = "received" /\ ev.kind \in AdminCommands /\ ev.user # {admin_user_id})
            => store' = store
       /\ store' # store
            => (pc = "received" /\ ev.kind \in AdminCommands
                /\ ev.user = {admin_user_id})]_vars

\* somebody else's create_project for a free slug was refused
C15_Witness ==
    /\ HandledKind("create_project")
    /\ ev.user = {admin_user_id + 1}
    /\ ev.args # <<>>
    /\ \A i \in Indexes(store) : store[i].slug # ev.args[1]
    /\ store # <<>>
    /\ replies = <<AdminOnly>>

\* the rows that have the endpoint on either side
Qualifying(st, chat_id) ==
    {i \in Indexes(st) : chat_id \in st[i].customer_chat_id
                         \/ chat_id \in st[i].executor_chat_id}

\* C16: findByEndpoint(e) returns nothing exactly when no project has e on
\* either side; otherwise it returns the qualifying project that is first in
\* ascending slug order, with role customer if that project's
\* customerEndpoint is e and executor otherwise.
C16_FirstBySlug ==
    \A e \in Endpoints :
        IF Qualifying(store, e) = {}
        THEN find_by_chat_id(store, e) = None
        ELSE LET first == CHOOSE i \in Qualifying(store, e) :
                            \A j \in Qualifying(store, e) :
                              SlugRank(store[i].slug) <= SlugRank(store[j].slug)
             IN find_by_chat_id(store, e) =
                  {[project |-> store[first],
                    role |-> IF store[first].customer_chat_id = {e}
                             THEN "customer" ELSE "executor"]}

\* the project and role relay_message resolved for the origin chat
Resolved == TheValue(find_by_chat_id(store, ev.message.chat_id))

\* C17: a message is forwarded to a destination endpoint only through a
\* project whose active flag is true; after an unlinkEndpoint, also one that
\* matched neither side, nothing is forwarded through the project until a
\* bindCustomer reactivates it.
C17_ForwardOnlyIfActive ==
    (HandledKind("relay") /\ calls # <<>>) => Resolved.project.is_active

\* C18: forwarded content is the inbound content plus the role label: a text
\* is delivered as the role's prefix followed by the original text; a media
\* message is delivered with the same media reference and a caption holding
\* the role's label and, when the inbound message had a caption, that
\* caption; the label is the executor label exactly when the role is
\* executor.
C18_ContentPreserved ==
    (HandledKind("relay") /\ calls # <<>>) =>
      LET label == IF Resolved.role = "executor" THEN ExecutorLabel ELSE CustomerLabel
      IN /\ Len(calls) = 1
         /\ IF ev.message.content = "text"
            THEN calls[1].body = <<label, ": ", TheText>>
            ELSE /\ calls[1].body = FileId(ev.message.content)
                 /\ \E cap \in calls[1].caption :
                      /\ cap[1] = label
                      /\ \A original \in ev.message.caption :
                           \E k \in 1..Len(cap) : cap[k] = original

\* C19: each inbound message causes at most one transport delivery call, and
\* only to the resolved counterpart endpoint; a failing call is not retried,
\* the sender gets exactly one could-not-deliver notice, nothing is raised
\* out of the handler and the store is unchanged; a message of an
\* unsupported content type from a chat whose counterpart is present causes
\* no delivery and one unsupported-content notice to the sender.
C19_OneDeliveryNoRetry ==
    [][Handling("relay") =>
         /\ Len(calls') <= 1
         /\ store' = store
         /\ raised' = NoException
         /\ \A k \in 1..Len(calls') :
              /\ IsBound(store, ev.message.chat_id)
              /\ {calls'[k].target} = Counterpart(store, ev.message.chat_id)
         /\ (ev.fail /\ calls' # <<>>) => replies' = <<DeliveryFailed>>
         /\ (~ev.fail /\ calls' # <<>>) => replies' = <<>>
         /\ (/\ RealMessage
             /\ ev.message.content = "other"
             /\ IsBound(store, ev.message.chat_id)
             /\ Counterpart(store, ev.message.chat_id) # None)
            => (calls' = <<>> /\ replies' = <<Unsupported>>)]_vars

\* C20: no operation sets executorEndpoint on an existing project: every
\* step keeps each project's executor or clears it, so an executor cleared
\* by unlinkEndpoint stays absent (bindCustomer leaves it, createProject on
\* the slug fails); a message that resolves to a project without executor
\* is answered with the no-pairing notice and delivers nothing, also after
\* bindCustomer has set active = true again.
C20_ExecutorNeverRestored ==
    [][/\ \A i \in Indexes(store) :
            /\ i \in Indexes(store')
            /\ store'[i].slug = store[i].slug
            /\ store'[i].executor_chat_id \in {store[i].executor_chat_id, None}
       /\ (/\ Handling("create_project") /\ CallsRepository
           /\ \E i \in Indexes(store) : /\ store[i].slug = ev.args[1]
                                        /\ store[i].executor_chat_id = None)
          => (raised' = AlreadyExists /\ store' = store)
       /\ (/\ Handling("relay") /\ RealMessage
           /\ IsBound(store, ev.message.chat_id)
           /\ Resolved.project.executor_chat_id = None)
          => /\ Resolved.role = "customer"
             /\ replies' = <<NoPairing>>
             /\ calls' = <<>>]_vars

\* a customer's message is answered with the no-pairing notice by a project
\* that was unlinked from its executor and bound again
C20_Witness ==
    /\ HandledKind("relay") /\ RealMessage
    /\ IsBound(store, ev.message.chat_id)
    /\ Resolved.role = "customer"
    /\ Resolved.project.executor_chat_id = None
    /\ Resolved.project.is_active
    /\ replies = <<NoPairing>>

====
